---- MODULE Spec2Model ----
(***************************************************************************)
(* Model of bodanv/spi:                                                    *)
(*   src/iot_soltrack.py  weather ingestion, tracker orientation, PV yield *)
(*   src/spi.py           peripheral angle writer                          *)
(*                                                                         *)
(* Conventions.                                                            *)
(*   - A Python datetime is a record [year, month, day, hour, minute,      *)
(*     second]; a timedelta is a record [days, seconds].                   *)
(*   - A pandas Timestamp is an integer: minutes since 1970-01-01 00:00    *)
(*     (pandas keeps an integer offset from that epoch; every timestamp    *)
(*     of the program is a whole minute).                                  *)
(*   - A string produced by strftime('%Y-%m-%d %H:%M') is the sequence of  *)
(*     its twelve decimal digits (the separators carry no information).    *)
(*   - Physical quantities are integers: angles in degrees, weather        *)
(*     values in tenths of their unit, so a product of two weather values  *)
(*     is in hundredths.                                                   *)
(*   - A raised Python exception is recorded by its class name.            *)
(***************************************************************************)
EXTENDS Integers, Sequences, FiniteSets, TLC

VARIABLES
  pc,               \* position of the running script / function
  product_version,  \* argument of main
  mount_type,       \* argument of main / get_tracker_position
  sun,              \* the site's ephemeris (stands for lat, lon)
  now,              \* value returned by datetime.now()
  response,         \* what requests.get produced
  requests,         \* number of HTTP GETs issued by get_location_data
  time,             \* local `time` of main / time_interval
  weather,          \* local `weather` of main
  tracker_data,     \* local `tracker_data`
  tracker_poa,      \* local `tracker_poa`
  pv_power,         \* local `pv_power`
  outcome,          \* "running", "returned" or the exception class raised
  spi,              \* the SpiDev object of src/spi.py
  angle1, angle2,   \* src/spi.py globals
  to_send,          \* src/spi.py global
  printed,          \* lines written by print()
  wire              \* byte lists handed to spi.xfer

vars == <<pc, product_version, mount_type, sun, now, response, requests, time,
          weather, tracker_data, tracker_poa, pv_power, outcome,
          spi, angle1, angle2, to_send, printed, wire>>

mainVars == <<product_version, mount_type, sun, response, requests,
              weather, tracker_data, tracker_poa, pv_power>>
spiVars == <<spi, angle1, angle2, to_send, printed, wire>>

\* A local variable that has not been assigned.
Unbound == [kind |-> "unbound"]

-----------------------------------------------------------------------------
(* Bounds of the model.                                                    *)

FirstYear == 2023
YearSpan == 2
MaxSamples == 8
MaxLen == 50
SeedCount == 2

-----------------------------------------------------------------------------
(* The proleptic Gregorian calendar of Python's datetime module, which     *)
(* `now + timedelta(days=1)` and `.replace(...)` go through.               *)

is_leap(y) == y % 4 = 0 /\ (y % 100 # 0 \/ y % 400 = 0)

days_in_month(y, m) ==
  IF m = 2 THEN (IF is_leap(y) THEN 29 ELSE 28)
  ELSE IF m \in {4, 6, 9, 11} THEN 30 ELSE 31

days_before_year(y) ==
  (y - 1) * 365 + ((y - 1) \div 4) - ((y - 1) \div 100) + ((y - 1) \div 400)

RECURSIVE days_before_month(_, _)
days_before_month(y, m) ==
  IF m = 1 THEN 0 ELSE days_before_month(y, m - 1) + days_in_month(y, m - 1)

ymd2ord(y, m, d) == days_before_year(y) + days_before_month(y, m) + d

\* datetime._ord2ymd: ordinal -> <<year, month, day>>
ord2ymd(ord) ==
  LET n0   == ord - 1
      n400 == n0 \div 146097
      r400 == n0 % 146097
      n100 == r400 \div 36524
      r100 == r400 % 36524
      n4   == r100 \div 1461
      r4   == r100 % 1461
      n1   == r4 \div 365
      n    == r4 % 365
      year == n400 * 400 + 1 + n100 * 100 + n4 * 4 + n1
  IN IF n1 = 4 \/ n100 = 4 THEN <<year - 1, 12, 31>>
     ELSE LET guess == (n + 50) \div 32
              prec  == days_before_month(year, guess)
              month == IF prec > n THEN guess - 1 ELSE guess
              before == days_before_month(year, month)
          IN <<year, month, n - before + 1>>

\* timedelta(days=d, hours=h), normalised as Python keeps it
\* (0 <= seconds < 86400, the sign carried by days).
timedelta(d, h) ==
  LET total == d * 86400 + h * 3600
  IN [days |-> total \div 86400, seconds |-> total % 86400]

\* -timedelta
neg_timedelta(td) ==
  LET total == -(td.days * 86400 + td.seconds)
  IN [days |-> total \div 86400, seconds |-> total % 86400]

\* datetime.__add__
datetime_add(dt, td) ==
  LET secs == dt.hour * 3600 + dt.minute * 60 + dt.second + td.seconds
      ord  == ymd2ord(dt.year, dt.month, dt.day) + td.days + (secs \div 86400)
      rem  == secs % 86400
      ymd  == ord2ymd(ord)
  IN [year |-> ymd[1], month |-> ymd[2], day |-> ymd[3],
      hour |-> rem \div 3600, minute |-> (rem % 3600) \div 60,
      second |-> rem % 60]

\* datetime.__sub__ with a timedelta
datetime_sub(dt, td) == datetime_add(dt, neg_timedelta(td))

\* datetime.replace(hour=0, minute=0, second=0, microsecond=0)
replace_midnight(dt) == [dt EXCEPT !.hour = 0, !.minute = 0, !.second = 0]

-----------------------------------------------------------------------------
(* pandas timestamps.                                                      *)

\* pd.Timestamp(datetime): minutes since 1970-01-01 (ordinal 719163)
to_stamp(dt) ==
  (ymd2ord(dt.year, dt.month, dt.day) - 719163) * 1440 + dt.hour * 60 + dt.minute

\* Timestamp.year/.month/.day/.hour/.minute
stamp_fields(s) ==
  LET ymd == ord2ymd((s \div 1440) + 719163)
  IN [year |-> ymd[1], month |-> ymd[2], day |-> ymd[3],
      hour |-> (s % 1440) \div 60, minute |-> s % 60]

\* pd.date_range(start, end, freq): start, start+freq, ... while <= end
date_range(start, end, freq) ==
  IF end < start THEN <<>>
  ELSE [i \in 1..(((end - start) \div freq) + 1) |-> start + (i - 1) * freq]

\* Timestamp.strftime('%Y-%m-%d %H:%M'): the twelve digits YYYYMMDDHHMM
strftime(s) ==
  LET f == stamp_fields(s)
  IN <<(f.year \div 1000) % 10, (f.year \div 100) % 10, (f.year \div 10) % 10,
       f.year % 10, f.month \div 10, f.month % 10, f.day \div 10, f.day % 10,
       f.hour \div 10, f.hour % 10, f.minute \div 10, f.minute % 10>>

\* pd.to_datetime of one 'YYYY-MM-DD HH:MM' string
to_datetime(str) ==
  to_stamp([year   |-> str[1] * 1000 + str[2] * 100 + str[3] * 10 + str[4],
            month  |-> str[5] * 10 + str[6],
            day    |-> str[7] * 10 + str[8],
            hour   |-> str[9] * 10 + str[10],
            minute |-> str[11] * 10 + str[12],
            second |-> 0])

\* DatetimeIndex.strftime(...) of a whole index
strftime_index(stamps) == [i \in 1..Len(stamps) |-> strftime(stamps[i])]

\* pd.to_datetime of a list of strings
to_datetime_list(strs) == [i \in 1..Len(strs) |-> to_datetime(strs[i])]

\* create_time_series with the end of the range left at 00:00 of the day after
\* (the `- timedelta(hours=1)` of line 82 forgotten)
create_time_series_no_hour_sub(current) ==
  LET start_date  == replace_midnight(datetime_add(current, timedelta(1, 0)))
      end_date    == datetime_add(start_date, timedelta(1, 0))
      time_values == date_range(to_stamp(start_date), to_stamp(end_date), 60)
  IN to_datetime_list(strftime_index(time_values))

\* src/iot_soltrack.py create_time_series, as a function of datetime.now()
create_time_series(current) ==
  LET start_date  == replace_midnight(datetime_add(current, timedelta(1, 0)))
      end_date    == datetime_sub(datetime_add(start_date, timedelta(1, 0)),
                                  timedelta(0, 1))
      time_values == date_range(to_stamp(start_date), to_stamp(end_date), 60)
      time_strings == strftime_index(time_values)
  IN to_datetime_list(time_strings)

-----------------------------------------------------------------------------
(* The clock values datetime.now() is drawn from.                          *)

Years == FirstYear..(FirstYear + YearSpan - 1)

Nows ==
  { [year |-> y, month |-> m, day |-> d, hour |-> h, minute |-> mi, second |-> s] :
      y \in Years, m \in 1..12, d \in 1..31, h \in {0, 23}, mi \in {0, 59},
      s \in {0, 59} }

ValidNows == { n \in Nows : n.day <= days_in_month(n.year, n.month) }

NoNow == [year |-> 0, month |-> 0, day |-> 0, hour |-> 0, minute |-> 0, second |-> 0]


-----------------------------------------------------------------------------
(* Sequences as Python lists and pandas columns.                           *)

Min(a, b) == IF a < b THEN a ELSE b

\* Python s[a:b] for 0 <= a <= b (0-based, end exclusive, clipped to len(s))
Slice(s, a, b) == SubSeq(s, a + 1, Min(b, Len(s)))

\* pandas' missing value; every real value of the model is >= 0
NaN == -1

Repeat(v, n) == [i \in 1..n |-> v]

-----------------------------------------------------------------------------
(* The forecast endpoint's answer, and get_location_data (lines 18-68).    *)

\* keys of response.json()['data_1h'] in the order the function reads them
ApiFields == <<"time", "temperature", "ghi_instant", "dni_instant", "dif_instant",
               "windspeed", "winddirection", "precipitation", "snowfraction">>

ApiFieldSet == { ApiFields[i] : i \in 1..Len(ApiFields) }

\* columns of the weather table in the order lines 58-66 assign them
WeatherColumns == <<"temperature", "ghi", "dni", "dhi", "wind_speed",
                    "wind_direction", "precipitation", "snow_fraction", "snow_load">>

\* 00:00 of the day the endpoint is asked on
ApiToday == to_stamp([year |-> 2024, month |-> 2, day |-> 27,
                      hour |-> 0, minute |-> 0, second |-> 0])

\* entry i (0-based) of one hourly array of the answer
ApiValue(field, i, seed, start) ==
  CASE field = "time"          -> strftime(start + 60 * i)
    [] field = "precipitation" -> ((i + seed) % 5) * 10
    [] field = "snowfraction"  -> ((i * (seed + 1)) % 3) * 5
    [] field = "temperature"   -> 100 + ((7 * i + seed) % 150)
    [] field = "windspeed"     -> (3 * i + seed) % 90
    [] field = "winddirection" -> (37 * i + seed) % 360
    [] OTHER                   -> (11 * i + 5 * seed + Len(field)) % 900

\* the hourly section: present fields -> arrays of the given lengths
ApiData(lens, seed, start) ==
  [f \in DOMAIN lens |-> [i \in 1..lens[f] |-> ApiValue(f, i - 1, seed, start)]]

TransportFailure == [kind |-> "transport_failure"]

NotJson(status) == [kind |-> "http", status |-> status, json |-> FALSE,
                    has_data_1h |-> FALSE, data_1h |-> <<>>]

JsonWithout(status) == [kind |-> "http", status |-> status, json |-> TRUE,
                        has_data_1h |-> FALSE, data_1h |-> <<>>]

JsonWith(status, data) == [kind |-> "http", status |-> status, json |-> TRUE,
                           has_data_1h |-> TRUE, data_1h |-> data]

\* a DataFrame: its index (timestamps, or 0..n-1 for a RangeIndex) and its
\* columns; `exc` is the exception an assignment to it raised, if any
DataFrame(index, index_kind, cols) ==
  [kind |-> "DataFrame", index |-> index, index_kind |-> index_kind,
   cols |-> cols, exc |-> "none"]

\* df[name] = value for a list value (DataFrame.__setitem__):
\* a frame with an empty index takes its index from a non-empty value,
\* otherwise the lengths must match
set_column(df, name, value) ==
  IF df.exc # "none" THEN df
  ELSE IF Len(df.index) = 0 /\ Len(value) > 0
  THEN [df EXCEPT !.index = [i \in 1..Len(value) |-> i - 1],
                  !.index_kind = "range",
                  !.cols = [c \in DOMAIN df.cols |->
                              IF c = name THEN value ELSE Repeat(NaN, Len(value))]]
  ELSE IF Len(value) # Len(df.index)
  THEN [df EXCEPT !.exc = "ValueError"]
  ELSE [df EXCEPT !.cols[name] = value]

RECURSIVE set_columns(_, _, _, _)
set_columns(df, names, values, k) ==
  IF k > Len(names) THEN df
  ELSE set_columns(set_column(df, names[k], values[k]), names, values, k + 1)

\* snow load as the sum of precipitation and snow fraction
snow_load_sum(precipitation, snow_fraction) ==
  [t \in 1..24 |-> precipitation[t] + snow_fraction[t]]

\* line 53: [precipitation[t]*snow_fraction[t] for t in range(24)]
snow_load_of(precipitation, snow_fraction) ==
  [t \in 1..24 |-> precipitation[t] * snow_fraction[t]]

\* [24:48] of one hourly array
day_slice(arr) == Slice(arr, 24, 48)

Raised(exc) == [exc |-> exc, time |-> <<>>, weather |-> Unbound]

\* lines 33-68.  Result: the exception raised, or "none" with [time, weather]
get_location_data(resp) ==
  IF resp.kind = "transport_failure" THEN Raised("ConnectionError")  \* line 33
  ELSE IF ~resp.json THEN Raised("JSONDecodeError")                  \* line 36
  ELSE IF ~resp.has_data_1h THEN Raised("KeyError")                  \* line 36
  ELSE IF \E i \in 1..Len(ApiFields) : ApiFields[i] \notin DOMAIN resp.data_1h
  THEN Raised("KeyError")                                            \* lines 36-52
  ELSE
    LET d == resp.data_1h
        time_ == to_datetime_list(day_slice(d["time"]))
        temperature == day_slice(d["temperature"])
        GHI == day_slice(d["ghi_instant"])
        DNI == day_slice(d["dni_instant"])
        DHI == day_slice(d["dif_instant"])
        wind_speed == day_slice(d["windspeed"])
        wind_direction == day_slice(d["winddirection"])
        precipitation == day_slice(d["precipitation"])
        snow_fraction == day_slice(d["snowfraction"])
    IN IF Len(precipitation) < 24 \/ Len(snow_fraction) < 24
       THEN Raised("IndexError")                                     \* line 53
       ELSE
         LET snow_load == snow_load_of(precipitation, snow_fraction)
             empty == DataFrame(time_, "datetime",
                        [c \in { WeatherColumns[i] : i \in 1..Len(WeatherColumns) }
                           |-> Repeat(NaN, Len(time_))])
             filled == set_columns(empty, WeatherColumns,
                         <<temperature, GHI, DNI, DHI, wind_speed, wind_direction,
                           precipitation, snow_fraction, snow_load>>, 1)
         IN IF filled.exc # "none" THEN Raised(filled.exc)           \* lines 58-66
            ELSE [exc |-> "none", time |-> time_, weather |-> filled]

-----------------------------------------------------------------------------
(* Solar position and tracker orientation (lines 96-163).                  *)

\* Peak apparent elevation of the sun at the site, in degrees: the one
\* parameter of the ephemeris below, standing for (lat, lon) and the season.
SunPeaks == {25, 55, 85}

Abs(x) == IF x < 0 THEN -x ELSE x

\* loc.get_solarposition(time_interval): one row per timestamp.  The
\* ephemeris is external; here the sun culminates at 12:00 at `peak`
\* degrees, sinks one degree every six minutes, and turns a quarter of a
\* degree of azimuth per minute.
get_solarposition(time_interval, peak) ==
  [i \in 1..Len(time_interval) |->
     LET minute_of_day == time_interval[i] % 1440
         elevation == peak - (Abs(minute_of_day - 720) \div 6)
     IN [apparent_elevation |-> elevation,
         apparent_zenith |-> 90 - elevation,
         azimuth |-> minute_of_day \div 4]]

\* line 149: solar_position[solar_position['apparent_elevation']<0] = 0
mask_night(solar_position) ==
  [i \in 1..Len(solar_position) |->
     IF solar_position[i].apparent_elevation < 0
     THEN [apparent_elevation |-> 0, apparent_zenith |-> 0, azimuth |-> 0]
     ELSE solar_position[i]]

\* label of the one-hour bin a timestamp falls in
hour_bin(stamp) == stamp - (stamp % 60)

\* series.resample('1h').last(): the last non-missing sample of each bin
resample_1h_last(index, values) ==
  IF Len(index) = 0 THEN [index |-> <<>>, values |-> <<>>]
  ELSE
    LET labels == date_range(hour_bin(index[1]), hour_bin(index[Len(index)]), 60)
        members(l) == { i \in 1..Len(index) : hour_bin(index[i]) = l /\ values[i] # NaN }
    IN [index |-> labels,
        values |-> [k \in 1..Len(labels) |->
                      IF members(labels[k]) = {} THEN NaN
                      ELSE values[CHOOSE i \in members(labels[k]) :
                                    \A j \in members(labels[k]) : j <= i]]]

\* series.resample('1h').first(): one value per one-hour bin between the
\* first and the last timestamp, the first non-missing sample of the bin
\* (NaN for a bin without samples).  The index is increasing.
resample_1h_first(index, values) ==
  IF Len(index) = 0 THEN [index |-> <<>>, values |-> <<>>]
  ELSE
    LET labels == date_range(hour_bin(index[1]), hour_bin(index[Len(index)]), 60)
        members(l) == { i \in 1..Len(index) : hour_bin(index[i]) = l /\ values[i] # NaN }
    IN [index |-> labels,
        values |-> [k \in 1..Len(labels) |->
                      IF members(labels[k]) = {} THEN NaN
                      ELSE values[CHOOSE i \in members(labels[k]) :
                                    \A j \in members(labels[k]) : i <= j]]]

\* series.reindex(target, method='ffill'): each target timestamp takes the
\* value of the last label at or before it (NaN when there is none)
reindex_ffill(series, target) ==
  [i \in 1..Len(target) |->
     LET before == { k \in 1..Len(series.index) : series.index[k] <= target[i] }
     IN IF before = {} THEN NaN
        ELSE series.values[CHOOSE k \in before : \A j \in before : j <= k]]

\* lines 101-129: DiscontoniousDualAxisTrackerMount.get_orientation
dual_axis_get_orientation(index, solar_zenith, solar_azimuth) ==
  LET zenith_subset == resample_1h_first(index, solar_zenith)
      azimuth_subset == resample_1h_first(index, solar_azimuth)
      tilt == reindex_ffill(zenith_subset, index)
      azimuth == reindex_ffill(azimuth_subset, index)
  IN DataFrame(index, "datetime",
               [c \in {"surface_tilt", "surface_azimuth"} |->
                  IF c = "surface_tilt" THEN tilt ELSE azimuth])

\* line 154: lambda x: 30 if x>30 else x
clamp_tilt(x) == IF x > 30 THEN 30 ELSE x

\* lines 157-158: FixedMount(surface_tilt = 30, surface_azimuth = 180)
\* .get_orientation(...) is the mount's two numbers under their keys,
\* whatever the solar position series passed in
fixed_get_orientation(solar_zenith, solar_azimuth) ==
  [kind |-> "dict", surface_tilt |-> 30, surface_azimuth |-> 180]

Column(rows, name) ==
  [i \in 1..Len(rows) |->
     CASE name = "apparent_zenith" -> rows[i].apparent_zenith
       [] name = "azimuth" -> rows[i].azimuth
       [] OTHER -> rows[i].apparent_elevation]

\* lines 147-163.  Result: [exc, value]
get_tracker_position(peak, time_interval, mt) ==
  LET solar_position == mask_night(get_solarposition(time_interval, peak))
      zenith == Column(solar_position, "apparent_zenith")
      azimuth == Column(solar_position, "azimuth")
      dual == dual_axis_get_orientation(time_interval, zenith, azimuth)
      clamped == [dual EXCEPT !.cols["surface_tilt"] =
                    [i \in 1..Len(time_interval) |->
                       clamp_tilt(dual.cols["surface_tilt"][i])]]
  IN IF mt = "dual_axis" THEN [exc |-> "none", value |-> clamped, log |-> <<>>]
     ELSE IF mt = "fixed"
     THEN [exc |-> "none", value |-> fixed_get_orientation(zenith, azimuth),
           log |-> <<>>]
     \* line 161 prints; line 163 reads the unassigned local tracker_data
     ELSE [exc |-> "UnboundLocalError", value |-> Unbound,
           log |-> <<"ERROR: The mounting type you specified is not supported.">>]

MainIdle ==
  /\ product_version = "-" /\ mount_type = "-" /\ sun = 0
  /\ response = Unbound /\ requests = 0 /\ weather = Unbound
  /\ tracker_data = Unbound /\ tracker_poa = Unbound /\ pv_power = Unbound

SpiIdle ==
  /\ spi = Unbound /\ angle1 = 0 /\ angle2 = 0 /\ to_send = <<>>
  /\ printed = <<>> /\ wire = <<>>

-----------------------------------------------------------------------------
(* SpecTime: create_time_series called at an arbitrary wall-clock time.    *)

InitTime ==
  /\ pc = "create_time_series"
  /\ now \in ValidNows
  /\ time = <<>>
  /\ outcome = "running"
  /\ MainIdle /\ SpiIdle

CreateTimeSeriesCall ==
  /\ pc = "create_time_series"
  /\ time' = create_time_series(now)
  /\ pc' = "time_series_returned"
  /\ outcome' = "returned"
  /\ UNCHANGED <<now, mainVars, spiVars>>

NextTime == CreateTimeSeriesCall

SpecTime == InitTime /\ [][NextTime]_vars

-----------------------------------------------------------------------------------------------------------------------------------------------------------------------------------------------------------------------------
(* Irradiance and power (lines 165-229).  The numeric models are pvlib's;  *)
(* what the program's control flow depends on is which table is indexed by *)
(* what, and which lengths must agree.                                     *)

\* loc.get_clearsky(time): ghi, dni, dhi per timestamp
get_clearsky(time_interval, peak) ==
  LET sp == get_solarposition(time_interval, peak)
      up(i) == IF sp[i].apparent_elevation < 0 THEN 0 ELSE sp[i].apparent_elevation
  IN DataFrame(time_interval, "datetime",
               [c \in {"ghi", "dni", "dhi"} |->
                  [i \in 1..Len(time_interval) |->
                     CASE c = "ghi" -> 10 * up(i)
                       [] c = "dni" -> 9 * up(i)
                       [] OTHER -> up(i)]])

\* lines 181-196: df_poa['poa_global'], a series over the timestamps
get_tracker_poa_global(time_interval) ==
  [kind |-> "Series", index |-> time_interval, index_kind |-> "datetime"]

\* lines 214-229: pv_power, indexed like tracker_poa; the cell temperature
\* combines tracker_poa with weather['temperature'].values and
\* weather['wind_speed'].values, whose lengths must agree with it
calculate_pv_generation(poa, weather_) ==
  IF \/ Len(weather_.cols["temperature"]) # Len(poa.index)
     \/ Len(weather_.cols["wind_speed"]) # Len(poa.index)
  THEN [exc |-> "ValueError", value |-> Unbound]
  ELSE [exc |-> "none",
        value |-> [kind |-> "DataFrame", index |-> poa.index,
                   index_kind |-> poa.index_kind, columns |-> {"dc", "ac"}]]

\* lines 265-267: the typical-year rows of one calendar day, averaged by hour
tmy_day(rows) ==
  DataFrame([i \in 1..rows |-> i - 1], "range",
            [c \in {"temperature", "wind_speed"} |->
               [i \in 1..rows |-> IF c = "temperature" THEN 150 + i ELSE 20 + i]])

-----------------------------------------------------------------------------
(* Spec: main(lat, lon, mount_type, product_version), lines 231-274.       *)

ProductVersions == {"with_forecast", "without_forecast", "other"}

MountTypes == {"fixed", "dual_axis", "invalid"}

Lens == {0, 24, 47, 48, MaxLen}

StartHours == {0, 5}

\* lengths of the hourly arrays: all `base`, except at most two of `short`
LengthProfiles ==
  { [f \in ApiFieldSet |-> IF f \in S THEN short ELSE base] :
      base \in Lens, short \in Lens,
      S \in { T \in SUBSET ApiFieldSet : Cardinality(T) <= 2 } }

\* one hourly array absent, the others complete
MissingProfiles ==
  { [f \in ApiFieldSet \ {gone} |-> 48] : gone \in ApiFieldSet }

Responses ==
  {TransportFailure}
  \cup { NotJson(st) : st \in {200, 500} }
  \cup { JsonWithout(st) : st \in {200, 500} }
  \cup { JsonWith(200, ApiData(p, seed, ApiToday + 60 * h)) :
           p \in LengthProfiles \cup MissingProfiles,
           seed \in 0..(SeedCount - 1), h \in StartHours }

\* the clock values main's create_time_series call is run at
MainNows ==
  { n \in ValidNows :
      /\ n.year = FirstYear + 1 /\ n.hour = 23 /\ n.minute = 59 /\ n.second = 59
      /\ \/ (n.month = 2 /\ n.day \in {27, 28})
         \/ (n.month = 12 /\ n.day = 31) }

Init ==
  /\ pc = "main"
  /\ product_version \in ProductVersions
  /\ mount_type \in MountTypes
  /\ sun \in SunPeaks
  /\ now = NoNow
  /\ response = Unbound /\ requests = 0
  /\ time = <<>>
  /\ weather = Unbound /\ tracker_data = Unbound
  /\ tracker_poa = Unbound /\ pv_power = Unbound
  /\ outcome = "running"
  /\ SpiIdle

inputVars == <<product_version, mount_type, sun, spi, angle1, angle2, to_send, wire>>

\* line 236: [time, weather] = get_location_data(lat, lon)
MainGetLocationData ==
  /\ pc = "main" /\ product_version = "with_forecast"
  /\ \E resp \in Responses :
       LET r == get_location_data(resp)
       IN /\ response' = resp
          /\ requests' = requests + 1
          /\ IF r.exc # "none"
             THEN /\ outcome' = r.exc /\ pc' = "raised"
                  /\ UNCHANGED <<time, weather>>
             ELSE /\ time' = r.time /\ weather' = r.weather
                  /\ pc' = "tracker" /\ UNCHANGED outcome
  /\ UNCHANGED <<inputVars, now, tracker_data, tracker_poa, pv_power, printed>>

\* lines 250-252: time = create_time_series(); weather = loc.get_clearsky(time)
MainCreateTimeSeries ==
  /\ pc = "main" /\ product_version = "without_forecast"
  /\ \E n \in MainNows :
       /\ now' = n
       /\ time' = create_time_series(n)
       /\ weather' = get_clearsky(create_time_series(n), sun)
  /\ pc' = "tracker"
  /\ UNCHANGED <<inputVars, response, requests, tracker_data, tracker_poa,
                 pv_power, outcome, printed>>

\* neither `if` of lines 234 and 248 is taken
MainNoVersion ==
  /\ pc = "main" /\ product_version \notin {"with_forecast", "without_forecast"}
  /\ pc' = "return"
  /\ UNCHANGED <<inputVars, now, response, requests, time, weather, tracker_data,
                 tracker_poa, pv_power, outcome, printed>>

\* lines 239 / 255: tracker_data = get_tracker_position(lat, lon, time, mount_type)
MainGetTrackerPosition ==
  /\ pc = "tracker"
  /\ LET r == get_tracker_position(sun, time, mount_type)
     IN /\ printed' = printed \o r.log
        /\ IF r.exc # "none"
           THEN outcome' = r.exc /\ pc' = "raised" /\ UNCHANGED tracker_data
           ELSE tracker_data' = r.value /\ pc' = "poa" /\ UNCHANGED outcome
  /\ UNCHANGED <<inputVars, now, response, requests, time, weather, tracker_poa,
                 pv_power>>

\* lines 242 / 258: tracker_poa = get_tracker_poa_global(...).  When the
\* weather table is not indexed by `time` (the forecast's time array was too
\* short to give the table its index) the irradiance model is handed series
\* that do not align; it then either raises or yields a series over the
\* weather table's rows.
MainGetTrackerPoa ==
  /\ pc = "poa"
  /\ IF weather.index = time /\ weather.index_kind = "datetime"
     THEN /\ tracker_poa' = get_tracker_poa_global(time)
          /\ pc' = IF product_version = "with_forecast" THEN "pv_forecast" ELSE "pv_tmy"
          /\ UNCHANGED outcome
     ELSE \/ /\ outcome' = "TypeError" /\ pc' = "raised"
             /\ UNCHANGED tracker_poa
          \/ /\ tracker_poa' = [kind |-> "Series", index |-> weather.index,
                                index_kind |-> weather.index_kind]
             /\ pc' = "pv_forecast"
             /\ UNCHANGED outcome
  /\ UNCHANGED <<inputVars, now, response, requests, time, weather, tracker_data,
                 pv_power, printed>>

\* line 245: pv_power = calculate_pv_generation(tracker_poa, weather)
MainPvForecast ==
  /\ pc = "pv_forecast"
  /\ LET r == calculate_pv_generation(tracker_poa, weather)
     IN IF r.exc # "none"
        THEN outcome' = r.exc /\ pc' = "raised" /\ UNCHANGED pv_power
        ELSE pv_power' = r.value /\ pc' = "return" /\ UNCHANGED outcome
  /\ UNCHANGED <<inputVars, now, response, requests, time, weather, tracker_data,
                 tracker_poa, printed>>

\* lines 261-270: the typical-year download, the one-day check and the
\* power computed from that day's typical weather.  The download can fail;
\* the typical year has every calendar day but may lack 29 February.
MainPvTmy ==
  /\ pc = "pv_tmy"
  /\ \/ /\ outcome' = "ConnectionError" /\ pc' = "raised"
        /\ UNCHANGED <<weather, pv_power, printed>>
     \/ /\ Len(time) < 24
        /\ outcome' = "IndexError" /\ pc' = "raised"
        /\ UNCHANGED <<weather, pv_power, printed>>
     \/ /\ Len(time) >= 24
        /\ stamp_fields(time[1]).day = stamp_fields(time[24]).day
        /\ \E rows \in (IF stamp_fields(time[1]).month = 2 /\ stamp_fields(time[1]).day = 29
                        THEN {0, 24} ELSE {24}) :
             LET r == calculate_pv_generation(tracker_poa, tmy_day(rows))
             IN /\ weather' = tmy_day(rows)
                /\ IF r.exc # "none"
                   THEN outcome' = r.exc /\ pc' = "raised" /\ UNCHANGED pv_power
                   ELSE pv_power' = r.value /\ pc' = "return" /\ UNCHANGED outcome
        /\ UNCHANGED printed
     \/ /\ Len(time) >= 24
        /\ stamp_fields(time[1]).day # stamp_fields(time[24]).day
        /\ printed' = Append(printed, "Error: Timeseries contains more than one day")
        /\ pc' = "return"
        /\ UNCHANGED <<weather, pv_power, outcome>>
  /\ UNCHANGED <<inputVars, now, response, requests, time, tracker_data, tracker_poa>>

\* line 274: return [tracker_data, pv_power]
MainReturn ==
  /\ pc = "return"
  /\ IF tracker_data = Unbound \/ pv_power = Unbound
     THEN outcome' = "UnboundLocalError" /\ pc' = "raised"
     ELSE outcome' = "returned" /\ pc' = "done"
  /\ UNCHANGED <<inputVars, now, response, requests, time, weather, tracker_data,
                 tracker_poa, pv_power, printed>>

Next ==
  \/ MainGetLocationData \/ MainCreateTimeSeries \/ MainNoVersion
  \/ MainGetTrackerPosition \/ MainGetTrackerPoa \/ MainPvForecast
  \/ MainPvTmy \/ MainReturn

Spec == Init /\ [][Next]_vars

-----
(* SpecTracker: get_tracker_position called on an arbitrary regular time   *)
(* series (any start, a step of an hour or less, 1..MaxSamples samples).   *)

\* 00:00 of the day the series of SpecTracker lie on
TrackerDay == to_stamp([year |-> 2024, month |-> 6, day |-> 21,
                        hour |-> 0, minute |-> 0, second |-> 0])

StartMinutes == {0, 540, 660, 675, 705, 840, 1425}

Steps == {15, 20, 30, 60}

TrackerInputs ==
  { [i \in 1..n |-> TrackerDay + start + (i - 1) * step] :
      start \in StartMinutes, step \in Steps, n \in 1..MaxSamples }

InitTracker ==
  /\ pc = "get_tracker_position"
  /\ time \in TrackerInputs
  /\ mount_type \in MountTypes
  /\ sun \in SunPeaks
  /\ tracker_data = Unbound
  /\ outcome = "running"
  /\ product_version = "-" /\ response = Unbound /\ requests = 0
  /\ weather = Unbound /\ tracker_poa = Unbound /\ pv_power = Unbound
  /\ now = NoNow
  /\ SpiIdle

GetTrackerPositionCall ==
  /\ pc = "get_tracker_position"
  /\ LET r == get_tracker_position(sun, time, mount_type)
     IN /\ tracker_data' = r.value
        /\ outcome' = IF r.exc = "none" THEN "returned" ELSE r.exc
        /\ printed' = printed \o r.log
  /\ pc' = "tracker_position_ended"
  /\ UNCHANGED <<product_version, mount_type, sun, now, response, requests, time,
                 weather, tracker_poa, pv_power, spi, angle1, angle2, to_send, wire>>

NextTracker == GetTrackerPositionCall

SpecTracker == InitTracker /\ [][NextTracker]_vars

-----
(* Calendar arithmetic used only to state properties: the civil calendar   *)
(* counted day by day, independently of the ordinal conversions above.     *)

LeapYear(y) == (y % 4 = 0 /\ y % 100 # 0) \/ y % 400 = 0

MonthLength(y, m) ==
  CASE m \in {1, 3, 5, 7, 8, 10, 12} -> 31
    [] m \in {4, 6, 9, 11} -> 30
    [] OTHER -> IF LeapYear(y) THEN 29 ELSE 28

\* the calendar date following <<y, m, d>>
NextDay(y, m, d) ==
  IF d < MonthLength(y, m) THEN <<y, m, d + 1>>
  ELSE IF m < 12 THEN <<y, m + 1, 1>>
  ELSE <<y + 1, 1, 1>>

RECURSIVE DaysSince1970(_, _, _)
DaysSince1970(y, m, d) ==
  IF m > 1 THEN MonthLength(y, m - 1) + DaysSince1970(y, m - 1, d)
  ELSE IF y > 1970 THEN (IF LeapYear(y - 1) THEN 366 ELSE 365)
                        + DaysSince1970(y - 1, 1, d)
  ELSE d - 1

CivilMinutes(ymd, h, mi) == DaysSince1970(ymd[1], ymd[2], ymd[3]) * 1440 + h * 60 + mi

\* C9: whatever the current date and time, create_time_series returns
\* exactly 24 timestamps: the first at 00:00 of the calendar day after the
\* current date, each one hour after its predecessor, the last at 23:00 of
\* that same day.
C9_NextDayHourly ==
  pc = "time_series_returned" =>
    LET tomorrow == NextDay(now.year, now.month, now.day)
        midnight == CivilMinutes(tomorrow, 0, 0)
    IN /\ Len(time) = 24
       /\ time[1] = midnight
       /\ \A i \in 1..23 : time[i + 1] = time[i] + 60
       /\ time[24] = CivilMinutes(tomorrow, 23, 0)
       /\ \A i \in 1..24 : midnight <= time[i] /\ time[i] < midnight + 1440

\* C9 witness: called one second before midnight on the last day of a year,
\* the series has been returned and lies in the next year.
C9_Witness ==
  /\ pc = "time_series_returned"
  /\ now.hour = 23 /\ now.minute = 59 /\ now.second = 59
  /\ now.month = 12 /\ now.day = 31
  /\ Len(time) = 24
  /\ stamp_fields(time[1]).year = now.year + 1

-----------------------------------------------------------------------------
(* SpecSpi: the script src/spi.py, statement by statement.                 *)

\* The angle pairs the script is run with.  The source assigns 3000 and
\* 4560; the other pairs put every value a byte pair can carry through the
\* same packing expression, in both positions.
AnglePairs == {<<3000, 4560>>} \cup { <<a, 65535 - a>> : a \in 0..65535 }

\* int(angle / 256) for a non-negative angle: true division, then truncation
high_byte(angle) == angle \div 256

\* angle % 256
low_byte(angle) == angle % 256

\* little-endian packing of both angles (the byte order swapped)
pack_little_endian(a1, a2) ==
  <<low_byte(a1), high_byte(a1), low_byte(a2), high_byte(a2)>>

\* line 11: to_send
pack(a1, a2) == <<high_byte(a1), low_byte(a1), high_byte(a2), low_byte(a2)>>

\* hex(n): the hexadecimal digits of n, most significant first
RECURSIVE hex(_)
hex(n) == IF n < 16 THEN <<n>> ELSE Append(hex(n \div 16), n % 16)

InitSpi ==
  /\ pc = "spi_open"
  /\ spi = Unbound /\ angle1 = 0 /\ angle2 = 0 /\ to_send = <<>>
  /\ printed = <<>> /\ wire = <<>>
  /\ outcome = "running"
  /\ now = NoNow /\ time = <<>>
  /\ MainIdle

\* lines 3-4: spi = spidev.SpiDev(); spi.open(0, 0)
SpiOpen ==
  /\ pc = "spi_open"
  /\ spi' = [kind |-> "SpiDev", bus |-> 0, device |-> 0, opened |-> TRUE,
             mode |-> 0, bits_per_word |-> 0, max_speed_hz |-> 0]
  /\ pc' = "spi_mode"
  /\ UNCHANGED <<angle1, angle2, to_send, printed, wire, outcome, now, time, mainVars>>

\* line 4 when the device node cannot be opened: the script ends there
SpiOpenFails ==
  /\ pc = "spi_open"
  /\ spi' = [kind |-> "SpiDev", bus |-> 0, device |-> 0, opened |-> FALSE,
             mode |-> 0, bits_per_word |-> 0, max_speed_hz |-> 0]
  /\ pc' = "spi_crashed"
  /\ outcome' = "OSError"
  /\ UNCHANGED <<angle1, angle2, to_send, printed, wire, now, time, mainVars>>

\* line 5: spi.mode = 0b01
SpiSetMode ==
  /\ pc = "spi_mode"
  /\ spi' = [spi EXCEPT !.mode = 1]
  /\ pc' = "spi_bits"
  /\ UNCHANGED <<angle1, angle2, to_send, printed, wire, outcome, now, time, mainVars>>

\* line 6: spi.bits_per_word = 8
SpiSetBits ==
  /\ pc = "spi_bits"
  /\ spi' = [spi EXCEPT !.bits_per_word = 8]
  /\ pc' = "spi_speed"
  /\ UNCHANGED <<angle1, angle2, to_send, printed, wire, outcome, now, time, mainVars>>

\* line 7: spi.max_speed_hz = 500000
SpiSetSpeed ==
  /\ pc = "spi_speed"
  /\ spi' = [spi EXCEPT !.max_speed_hz = 500000]
  /\ pc' = "spi_angles"
  /\ UNCHANGED <<angle1, angle2, to_send, printed, wire, outcome, now, time, mainVars>>

\* lines 9-10: angle1 = ...; angle2 = ...
SpiAssignAngles ==
  /\ pc = "spi_angles"
  /\ \E a \in AnglePairs : angle1' = a[1] /\ angle2' = a[2]
  /\ pc' = "spi_pack"
  /\ UNCHANGED <<spi, to_send, printed, wire, outcome, now, time, mainVars>>

\* line 11
SpiPack ==
  /\ pc = "spi_pack"
  /\ to_send' = pack(angle1, angle2)
  /\ pc' = "spi_print"
  /\ UNCHANGED <<spi, angle1, angle2, printed, wire, outcome, now, time, mainVars>>

\* lines 13-14: one iteration of the print loop
SpiPrint ==
  /\ pc = "spi_print"
  /\ Len(printed) < Len(to_send)
  /\ printed' = Append(printed, hex(to_send[Len(printed) + 1]))
  /\ UNCHANGED <<pc, spi, angle1, angle2, to_send, wire, outcome, now, time, mainVars>>

\* line 16: spi.xfer(to_send), after the loop has ended
SpiXfer ==
  /\ pc = "spi_print"
  /\ Len(printed) = Len(to_send)
  /\ wire' = Append(wire, to_send)
  /\ pc' = "spi_done"
  /\ outcome' = "returned"
  /\ UNCHANGED <<spi, angle1, angle2, to_send, printed, now, time, mainVars>>

\* line 16 when the bus write fails
SpiXferFails ==
  /\ pc = "spi_print"
  /\ Len(printed) = Len(to_send)
  /\ pc' = "spi_crashed"
  /\ outcome' = "OSError"
  /\ UNCHANGED <<spi, angle1, angle2, to_send, printed, wire, now, time, mainVars>>

NextSpi ==
  \/ SpiOpen \/ SpiOpenFails \/ SpiSetMode \/ SpiSetBits \/ SpiSetSpeed
  \/ SpiAssignAngles \/ SpiPack \/ SpiPrint \/ SpiXfer \/ SpiXferFails

SpecSpi == InitSpi /\ [][NextSpi]_vars

\* C10: every angle in 0..65535 is packed into two bytes, both in 0..255,
\* with 256*high + low equal to the angle; the only transfer sends the four
\* bytes [high(angle1), low(angle1), high(angle2), low(angle2)] in that
\* order, after the device was opened and its mode, word size (8 bits) and
\* speed (500 kHz) were set.
C10_BigEndianPacking ==
  /\ to_send # <<>> =>
       /\ Len(to_send) = 4
       /\ \A i \in 1..4 : to_send[i] \in 0..255
       /\ 256 * to_send[1] + to_send[2] = angle1
       /\ 256 * to_send[3] + to_send[4] = angle2
  /\ Len(wire) <= 1
  /\ wire # <<>> =>
       /\ wire[1] = to_send
       /\ 256 * wire[1][1] + wire[1][2] = angle1
       /\ 256 * wire[1][3] + wire[1][4] = angle2
       /\ spi.opened /\ spi.bus = 0 /\ spi.device = 0
       /\ spi.mode = 1 /\ spi.bits_per_word = 8 /\ spi.max_speed_hz = 500000

\* C10 witness: angle 3000 went over the wire as 0x0B, 0xB8.
C10_Witness ==
  /\ pc = "spi_done"
  /\ angle1 = 3000 /\ angle2 = 4560
  /\ wire = << <<11, 184, 17, 208>> >>
  /\ printed = << <<11>>, <<11, 8>>, <<1, 1>>, <<13, 0>> >>

-----------------------------------------------------------------------------
(* Properties of get_location_data and main, checked under Spec.           *)

\* the forecast request of this run has been made and answered with JSON
\* holding an hourly section
Answered ==
  /\ product_version = "with_forecast" /\ pc # "main"
  /\ response.kind = "http" /\ response.json /\ response.has_data_1h

\* every expected hourly array is there with at least 48 entries
Complete ==
  /\ Answered
  /\ \A f \in ApiFieldSet :
       f \in DOMAIN response.data_1h /\ Len(response.data_1h[f]) >= 48

SchemaErrorKinds == {"SchemaError", "KeyError", "IndexError", "ValueError"}

\* C3: get_location_data ends in a SchemaError whenever the response lacks
\* an expected hourly array or one of them has fewer than 48 entries, and
\* returns no weather table then.  (Stated with every exception a missing
\* key, a short list or a length mismatch raises counted as a SchemaError.)
C3_IncompleteResponseIsSchemaError ==
  (Answered /\ ~Complete) =>
    /\ weather = Unbound
    /\ pc = "raised"
    /\ outcome \in SchemaErrorKinds

\* exception classes that report a failed request: every exception of the
\* requests library, the one its body decoding raises included
NetworkErrorKinds ==
  {"NetworkError", "ConnectionError", "Timeout", "HTTPError", "JSONDecodeError"}

\* C4: one HTTP GET per get_location_data call; when the request does not
\* succeed (no answer, or an answer with a non-success status) main ends in
\* a NetworkError and no weather, orientation or power table is produced.
C4_FailedRequestIsNetworkError ==
  /\ (product_version = "with_forecast" /\ pc # "main") => requests = 1
  /\ (/\ product_version = "with_forecast" /\ pc # "main"
      /\ (response.kind = "transport_failure" \/ response.status # 200)) =>
       /\ pc = "raised"
       /\ outcome \in NetworkErrorKinds
       /\ weather = Unbound /\ tracker_data = Unbound /\ pv_power = Unbound

\* the time range handed on by main starts and ends on different calendar days
TwoDayRange ==
  /\ pc \notin {"main"} /\ Len(time) > 0
  /\ time[1] \div 1440 # time[Len(time)] \div 1440

\* C2: when the time range spans two calendar days main ends in a
\* ValidationError and computes no PV power table, for both product versions.
C2_TwoDayRangeIsValidationError ==
  TwoDayRange =>
    /\ pv_power = Unbound
    /\ pc # "done"
    /\ (pc = "raised" /\ tracker_poa # Unbound) => outcome = "ValidationError"

-----------------------------------------------------------------------------
(* Properties of get_tracker_position, checked under SpecTracker.          *)

Ended == pc = "tracker_position_ended"

\* exception classes that report a bad argument
InvalidArgumentKinds == {"InvalidArgument", "ValueError", "TypeError"}

\* C1: for a mount type other than 'fixed' and 'dual_axis',
\* get_tracker_position ends in an InvalidArgument error and returns no
\* orientation table.
C1_UnsupportedMountIsInvalidArgument ==
  (Ended /\ mount_type \notin {"fixed", "dual_axis"}) =>
    /\ outcome \in InvalidArgumentKinds
    /\ tracker_data = Unbound

\* the solar position samples get_tracker_position works on
Samples == mask_night(get_solarposition(time, sun))

\* first sample of the clock hour sample i lies in
FirstOfHour(i) ==
  CHOOSE j \in 1..Len(time) :
    /\ time[j] \div 60 = time[i] \div 60
    /\ \A k \in 1..Len(time) : time[k] \div 60 = time[i] \div 60 => j <= k

\* C5: for 'dual_axis' every tilt is at most 30 degrees, and every
\* timestamp carries the zenith (limited to 30) and the azimuth of the first
\* solar position sample of its clock hour.
C5_DualAxisHoldAndLimit ==
  (Ended /\ mount_type = "dual_axis") =>
    /\ outcome = "returned"
    /\ tracker_data.kind = "DataFrame"
    /\ \A i \in 1..Len(time) :
         LET first == Samples[FirstOfHour(i)]
         IN /\ tracker_data.cols["surface_tilt"][i] <= 30
            /\ tracker_data.cols["surface_tilt"][i] =
                 Min(first.apparent_zenith, 30)
            /\ tracker_data.cols["surface_azimuth"][i] = first.azimuth

\* C5 witness: a sub-hourly series in which some timestamp holds the value
\* of an earlier sample of its hour (its own zenith is different), another
\* is limited to 30 and a third is below the limit.
C5_Witness ==
  /\ Ended /\ mount_type = "dual_axis"
  /\ \E i \in 1..Len(time) :
       /\ FirstOfHour(i) # i
       /\ tracker_data.cols["surface_tilt"][i] # Min(Samples[i].apparent_zenith, 30)
       /\ tracker_data.cols["surface_azimuth"][i] # Samples[i].azimuth
  /\ \E i \in 1..Len(time) :
       Samples[i].apparent_zenith > 30 /\ tracker_data.cols["surface_tilt"][i] = 30
  /\ \E i \in 1..Len(time) :
       tracker_data.cols["surface_tilt"][i] \in 1..29

\* C6: for 'fixed' the returned table has one row per input timestamp and
\* every row has tilt 30 and azimuth 180.
C6_FixedTableConstant ==
  (Ended /\ mount_type = "fixed") =>
    /\ outcome = "returned"
    /\ tracker_data.kind = "DataFrame"
    /\ Len(tracker_data.index) = Len(time)
    /\ \A i \in 1..Len(time) :
         /\ tracker_data.cols["surface_tilt"][i] = 30
         /\ tracker_data.cols["surface_azimuth"][i] = 180

\* C7: for each valid mount type the returned orientation table has exactly
\* one row per input timestamp, in the same order, indexed by the same
\* timestamps.
C7_OneRowPerTimestamp ==
  (Ended /\ mount_type \in {"fixed", "dual_axis"}) =>
    /\ outcome = "returned"
    /\ tracker_data.kind = "DataFrame"
    /\ tracker_data.index = time
    /\ \A c \in DOMAIN tracker_data.cols : Len(tracker_data.cols[c]) = Len(time)

====
